---- MODULE Spec2Model ----
(***************************************************************************)
(* Model of the scrape-parse-filter pipeline of real_estate_data_platform. *)
(*                                                                         *)
(*   Spec        a constructed scraper and calls of its date filter        *)
(*               (BaseScraper._passes_date_filter, _apply_date_filter)     *)
(*   SpecDetail  calls of the detail-page extraction of KijijiScraper      *)
(*               (_extract_neighbourhood_info, _parse_listing_detail,      *)
(*               parse_listing)                                            *)
(*   SpecPage    calls of the page level (KijijiScraper._parse_page_impl   *)
(*               and the template method BaseScraper.parse_page)           *)
(*   SpecFlow    runs of the flow scrape_to_bronze with its page tasks,    *)
(*               and calls of get_page and aggregate_results               *)
(*   SpecStore   calls of MinIOStorage.save_listings on one bucket, with   *)
(*               put_object calls that fail and saves that do not end      *)
(*                                                                         *)
(* A Python value that may be None is a record with a field telling        *)
(* whether it is there, so that values of one variable are comparable.     *)
(* A datetime is the triple (day, sec, us) that Python compares            *)
(* lexicographically after normalising to UTC.                             *)
(***************************************************************************)
EXTENDS Integers, Sequences, FiniteSets, TLC

VARIABLES
    scraper_mode,   \* BaseScraper.scraper_mode
    days,           \* BaseScraper.days
    specific_date,  \* BaseScraper.specific_date (a date or None)
    now,            \* the wall clock read by datetime.now(UTC)
    op,             \* the call the caller is in, "idle" between two calls
    arg,            \* the arguments of that call
    ret,            \* what the call returned or that it raised
    session,        \* BaseScraper.session: the GETs it issued, and close()
    objects,        \* the objects of the bucket, by object name
    put_calls,      \* the put_object calls made on the MinIO client
    flow            \* the run of scrape_to_bronze: its position and locals

vars == <<scraper_mode, days, specific_date, now, op, arg, ret,
          session, objects, put_calls, flow>>

-----------------------------------------------------------------------------
(* Bounds of the model *)

MaxDay == 3      \* calendar days are 0..MaxDay
MaxDays == 2     \* the lookback `days` is 0..MaxDays
MaxLen == 3      \* longest list handed to the bulk filter
MaxItems == 2    \* longest freely composed search page
MaxExtra == 1    \* items of a long search page beyond the cap of 8 listings

-----------------------------------------------------------------------------
(* datetime, date and timedelta *)

SecondsPerDay == 86400
MaxMicrosecond == 999999

\* the times of day that instants of the model take
TimesOfDay ==
    { [sec |-> 0, us |-> 0],
      [sec |-> 0, us |-> MaxMicrosecond],
      [sec |-> 43199, us |-> MaxMicrosecond],
      [sec |-> 43200, us |-> 0],
      [sec |-> 43201, us |-> 0],
      [sec |-> SecondsPerDay - 1, us |-> 0],
      [sec |-> SecondsPerDay - 1, us |-> MaxMicrosecond] }

Instant(d, s, u) == [day |-> d, sec |-> s, us |-> u]

Instants == { Instant(d, t.sec, t.us) : d \in 0..MaxDay, t \in TimesOfDay }

\* a < b and a <= b on UTC instants
Lt(a, b) ==
    \/ a.day < b.day
    \/ a.day = b.day /\ a.sec < b.sec
    \/ a.day = b.day /\ a.sec = b.sec /\ a.us < b.us

Leq(a, b) == Lt(a, b) \/ a = b

\* t - timedelta(days=n)
MinusDays(t, n) == [t EXCEPT !.day = @ - n]

\* datetime.combine(d, datetime.min.time()).replace(tzinfo=UTC)
StartOfDay(d) == Instant(d, 0, 0)

\* datetime.combine(d, datetime.max.time()).replace(tzinfo=UTC)
EndOfDay(d) == Instant(d, SecondsPerDay - 1, MaxMicrosecond)

\* the readings of the clock
ClockValues == { Instant(MaxDay, 43200, 0), Instant(MaxDay, 43201, 0) }

-----------------------------------------------------------------------------
(* Optional values *)

Some(x) == [some |-> TRUE, v |-> x]
NoInt == [some |-> FALSE, v |-> 0]
NoStr == [some |-> FALSE, v |-> ""]
NoDate == [some |-> FALSE, v |-> 0]

\* listing.published_at: None, a timezone-aware datetime (its UTC instant)
\* or a datetime without timezone
NoneDT == [kind |-> "none", t |-> Instant(0, 0, 0)]
Aware(t) == [kind |-> "aware", t |-> t]
Naive(t) == [kind |-> "naive", t |-> t]

PublishedAtValues ==
    {NoneDT} \cup { Aware(t) : t \in Instants } \cup { Naive(Instant(MaxDay, 43200, 0)) }

\* what a call gives: a value or an exception
Return(x) == [raised |-> FALSE, value |-> x]
Raise(x) == [raised |-> TRUE, value |-> x]

-----------------------------------------------------------------------------
(* BaseScraper: the date filter *)

\* listing.published_at >= cutoff_date
AtOrAfterCutoff_strict(published_at, cutoff_date) == Lt(cutoff_date, published_at)

AtOrAfterCutoff(published_at, cutoff_date) == Leq(cutoff_date, published_at)

\* start_of_day <= listing.published_at <= end_of_day
WithinDay_open(published_at, d) ==
    Lt(StartOfDay(d), published_at) /\ Lt(published_at, EndOfDay(d))

WithinDay(published_at, d) ==
    Leq(StartOfDay(d), published_at) /\ Leq(published_at, EndOfDay(d))

\* the branch of _passes_date_filter taken in mode specific_date
SpecificDateBranch_nocheck(sd, published_at) ==
    IF ~sd.some THEN Raise(FALSE)
    ELSE IF published_at.kind # "aware" THEN Raise(FALSE)
    ELSE Return(WithinDay(published_at.t, sd.v))

SpecificDateBranch(sd, published_at) ==
    IF ~sd.some THEN Return(TRUE)
    ELSE IF published_at.kind # "aware" THEN Raise(FALSE)
    ELSE Return(WithinDay(published_at.t, sd.v))

\* _passes_date_filter(listing) with the clock reading t. Comparing None or
\* a datetime without timezone with an aware datetime raises TypeError.
passes_date_filter(mode, n, sd, listing, t) ==
    IF mode = "last_x_days"
    THEN IF listing.published_at.kind # "aware" THEN Raise(FALSE)
         ELSE Return(AtOrAfterCutoff(listing.published_at.t, MinusDays(t, n)))
    ELSE SpecificDateBranch(sd, listing.published_at)

\* the list comprehension keeps a listing that passed, at the end
Keep_front(acc, listing, passed) == IF passed THEN <<listing>> \o acc ELSE acc

Keep(acc, listing, passed) == IF passed THEN Append(acc, listing) ELSE acc

\* the list comprehension of _apply_date_filter from position i on; clock[i]
\* is the reading of the clock in the i-th call of the predicate
RECURSIVE FilterFrom(_, _, _, _, _, _, _)

\* the turn of the comprehension for listing i, r being what the predicate
\* gave for it: its exception leaves the comprehension
FilterTurn(mode, n, sd, listings, clock, i, acc, r) ==
    IF r.raised THEN Raise(<<>>)
    ELSE FilterFrom(mode, n, sd, listings, clock, i + 1,
                    Keep(acc, listings[i], r.value))

FilterFrom(mode, n, sd, listings, clock, i, acc) ==
    IF i > Len(listings) THEN Return(acc)
    ELSE FilterTurn(mode, n, sd, listings, clock, i, acc,
                    passes_date_filter(mode, n, sd, listings[i], clock[i]))

apply_date_filter(mode, n, sd, listings, clock) ==
    FilterFrom(mode, n, sd, listings, clock, 1, <<>>)

\* the clock readings of a call over k listings that starts at t0, when the
\* clock moves on to t1 after the j-th reading
Readings(k, t0, t1, j) == [i \in 1..k |-> IF i <= j THEN t0 ELSE t1]

-----------------------------------------------------------------------------
(* What lies outside the scraper's filter: its HTTP session, the bucket and
   the flow; the specifications of the scraper's methods leave them alone *)

\* requests.Session() of a newly constructed scraper
NewSession == [gets |-> <<>>, closed |-> FALSE]

\* a bucket without objects
NoObjects == [k \in {} |-> {}]

\* no run of scrape_to_bronze has started
NoRun ==
    [pc |-> "none", constructed |-> FALSE, city |-> "toronto",
     max_pages |-> 0, page |-> 1, page_results |-> <<>>, task_runs |-> <<>>,
     result |-> [raised |-> FALSE, status |-> "none", pages_scraped |-> 0,
                 successful_pages |-> 0, failed_pages |-> 0,
                 total_listings |-> 0, stored |-> FALSE]]

Untouched ==
    /\ session = NewSession
    /\ objects = NoObjects
    /\ put_calls = <<>>
    /\ flow = NoRun

-----------------------------------------------------------------------------
(* Spec: a scraper and its date filter *)

Modes == {"last_x_days", "specific_date"}

SpecificDates == {NoDate} \cup { Some(d) : d \in 0..MaxDay }

\* a listing as the filter sees it
Listing(id, p) == [listing_id |-> id, published_at |-> p]

\* the published_at values of the lists handed to the bulk filter
SamplePublishedAt ==
    { NoneDT,
      Aware(Instant(MaxDay - 2, 43200, 0)),
      Aware(Instant(MaxDay - 1, 43200, 0)),
      Aware(Instant(MaxDay, 0, 0)) }

SeqsUpTo(S, k) == UNION { [1..m -> S] : m \in 0..k }

Init ==
    /\ scraper_mode \in Modes
    /\ days \in 0..MaxDays
    /\ specific_date \in SpecificDates
    /\ now \in ClockValues
    /\ op = "idle"
    /\ arg = <<>>
    /\ ret = Return(<<>>)
    /\ Untouched

\* the caller has taken the result of the call and goes on
Resume ==
    /\ op # "idle"
    /\ op' = "idle"
    /\ arg' = <<>>
    /\ ret' = Return(<<>>)
    /\ UNCHANGED <<session, objects, put_calls, flow, scraper_mode, days, specific_date, now>>

\* time passes
Tick ==
    /\ \E t \in ClockValues : Lt(now, t) /\ now' = t
    /\ UNCHANGED <<session, objects, put_calls, flow, scraper_mode, days, specific_date, op, arg, ret>>

\* scraper._passes_date_filter(listing)
CallPassesDateFilter ==
    \E p \in PublishedAtValues :
        /\ op = "idle"
        /\ op' = "passes_date_filter"
        /\ arg' = [listing |-> Listing(1, p), at |-> now]
        /\ ret' = passes_date_filter(scraper_mode, days, specific_date,
                                     Listing(1, p), now)
        /\ UNCHANGED <<session, objects, put_calls, flow, scraper_mode, days, specific_date, now>>

\* scraper._apply_date_filter(listings, city); the clock may move on once
\* while the comprehension runs
CallApplyDateFilter ==
    \E ps \in SeqsUpTo(SamplePublishedAt, MaxLen) :
    \E t1 \in { t \in ClockValues : Leq(now, t) } :
    \E j \in 0..Len(ps) :
        LET listings == [i \in 1..Len(ps) |-> Listing(i, ps[i])]
            clock == Readings(Len(ps), now, t1, j)
        IN  /\ op = "idle"
            /\ op' = "apply_date_filter"
            /\ arg' = [listings |-> listings, clock |-> clock]
            /\ ret' = apply_date_filter(scraper_mode, days, specific_date,
                                        listings, clock)
            /\ now' = t1
            /\ UNCHANGED <<session, objects, put_calls, flow, scraper_mode, days, specific_date>>

Next == Tick \/ Resume \/ CallPassesDateFilter \/ CallApplyDateFilter

Spec == Init /\ [][Next]_vars

-----------------------------------------------------------------------------
(* utils/parsers.py: a text is a sequence of characters *)

Text(cs) == [some |-> TRUE, v |-> cs]
NoText == [some |-> FALSE, v |-> <<>>]

Digits == {"0", "1", "2", "3", "4", "5", "6", "7", "8", "9"}

IsDigit(c) == c \in Digits

DigitValue(c) ==
    CASE c = "0" -> 0 [] c = "1" -> 1 [] c = "2" -> 2 [] c = "3" -> 3
      [] c = "4" -> 4 [] c = "5" -> 5 [] c = "6" -> 6 [] c = "7" -> 7
      [] c = "8" -> 8 [] c = "9" -> 9

\* int(cs) for a sequence of digits
RECURSIVE DecimalValue(_)
DecimalValue(cs) ==
    IF cs = <<>> THEN 0
    ELSE 10 * DecimalValue(SubSeq(cs, 1, Len(cs) - 1)) + DigitValue(cs[Len(cs)])

\* parse_int: the digits of the text, None when there is none
parse_int(value) ==
    IF ~value.some \/ value.v = <<>> THEN NoInt
    ELSE LET ds == SelectSeq(value.v, IsDigit)
         IN  IF ds = <<>> THEN NoInt ELSE Some(DecimalValue(ds))

NotSeparator(c) == c \notin {",", "$"}

RECURSIVE LStrip(_)
LStrip(cs) == IF cs # <<>> /\ cs[1] = " " THEN LStrip(Tail(cs)) ELSE cs

RECURSIVE RStrip(_)
RStrip(cs) ==
    IF cs # <<>> /\ cs[Len(cs)] = " " THEN RStrip(SubSeq(cs, 1, Len(cs) - 1)) ELSE cs

\* float(cs) of a text without fraction or exponent: an optional sign and
\* digits; anything else is a ValueError
IsWholeNumber(cs) ==
    LET body == IF cs # <<>> /\ cs[1] \in {"-", "+"} THEN Tail(cs) ELSE cs
    IN  body # <<>> /\ \A i \in 1..Len(body) : IsDigit(body[i])

WholeNumberValue(cs) ==
    IF cs[1] = "-" THEN 0 - DecimalValue(Tail(cs))
    ELSE IF cs[1] = "+" THEN DecimalValue(Tail(cs))
    ELSE DecimalValue(cs)

\* parse_float: the number left after dropping "," and "$" and stripping
parse_float(value) ==
    IF ~value.some \/ value.v = <<>> THEN NoInt
    ELSE LET cleaned == RStrip(LStrip(SelectSeq(value.v, NotSeparator)))
         IN  IF IsWholeNumber(cleaned) THEN Some(WholeNumberValue(cleaned)) ELSE NoInt

-----------------------------------------------------------------------------
(* KijijiScraper: the detail page *)

\* the activationDate of the page: absent, or a string
ActivationDate(f, t, h) == [fmt |-> f, local |-> t, off |-> h]
AbsentDate == ActivationDate("absent", Instant(0, 0, 0), 0)

\* the UTC instant of local time t at offset h hours
ToUTC(t, h) ==
    LET s == t.sec - h * 3600
    IN  IF s < 0 THEN Instant(t.day - 1, s + SecondsPerDay, t.us)
        ELSE IF s >= SecondsPerDay THEN Instant(t.day + 1, s - SecondsPerDay, t.us)
        ELSE Instant(t.day, s, t.us)

\* _parse_activation_date: datetime.fromisoformat(str(value).replace("Z",
\* "+00:00")), None on ValueError. str(None) is "None", which is no date.
parse_activation_date(value) ==
    CASE value.fmt = "z" -> Aware(value.local)
      [] value.fmt = "offset" -> Aware(ToUTC(value.local, value.off))
      [] value.fmt = "naive" -> Naive(value.local)
      [] OTHER -> NoneDT

\* price.amount of the listing data: absent, null or a number
Amount(k, n) == [kind |-> k, n |-> n]
AbsentAmount == Amount("absent", 0)
NullAmount == Amount("null", 0)

\* listing_data.get("price", {}).get("amount", 0)
RawPrice(amount) ==
    CASE amount.kind = "absent" -> Some(0)
      [] amount.kind = "null" -> NoInt
      [] OTHER -> Some(amount.n)

\* a rent is the fraction num/den
Rent(n, d) == [some |-> TRUE, num |-> n, den |-> d]
NoRent == [some |-> FALSE, num |-> 0, den |-> 1]

PriceThreshold == 100

\* if isinstance(price, int | float) and price > 100: price = price / 100
NormalizePrice_geq(price) ==
    IF ~price.some THEN NoRent
    ELSE IF price.v >= PriceThreshold THEN Rent(price.v, 100)
    ELSE Rent(price.v, 1)

NormalizePrice(price) ==
    IF ~price.some THEN NoRent
    ELSE IF price.v > PriceThreshold THEN Rent(price.v, 100)
    ELSE Rent(price.v, 1)

\* the "name" of the neighbourhood entry: absent, null or a string
Name(k, x) == [kind |-> k, v |-> x]

Nbhd(nm, w, t, b) == [name |-> nm, walk |-> w, transit |-> t, cycle |-> b]

NoScores == [walk_score |-> NoInt, transit_score |-> NoInt, bike_score |-> NoInt]

\* _extract_neighbourhood_info: ref is location.neighbourhoodInfo.__ref
\* ("absent", "dangling" when it is no key of the state, "ok"), nbhd the
\* state entry it points to
extract_neighbourhood_info(ref, nbhd) ==
    IF ref = "ok"
    THEN [neighbourhood |->
              CASE nbhd.name.kind = "absent" -> Some("N/A")
                [] nbhd.name.kind = "null" -> NoStr
                [] OTHER -> Some(nbhd.name.v),
          scores |-> [walk_score |-> nbhd.walk,
                      transit_score |-> nbhd.transit,
                      bike_score |-> nbhd.cycle]]
    ELSE [neighbourhood |-> Some("N/A"), scores |-> NoScores]

\* the fields RentalsListing is constructed with, info being what
\* _extract_neighbourhood_info returned
FieldsWith(id, data, info) ==
    [listing_id |-> id,
     published_at |-> parse_activation_date(data.activationDate),
     title |-> data.title,
     neighbourhood |-> info.neighbourhood,
     rent |-> NormalizePrice(RawPrice(data.amount)),
     bedrooms |-> parse_int(data.bedrooms),
     size_sqft |-> parse_float(data.size),
     walk_score |-> info.scores.walk_score,
     transit_score |-> info.scores.transit_score,
     bike_score |-> info.scores.bike_score]

ListingFields(id, data) ==
    FieldsWith(id, data, extract_neighbourhood_info(data.ref, data.nbhd))

MaxScore == 10

ScoreInRange(x) == x.some => (x.v >= 0 /\ x.v <= MaxScore)

\* the validation of RentalsListing: title, description and street are
\* strings (title stands for the three), ge=0 and le=10 constraints
Validates_norent(f) ==
    /\ f.title
    /\ f.bedrooms.some => f.bedrooms.v >= 0
    /\ f.size_sqft.some => f.size_sqft.v >= 0
    /\ ScoreInRange(f.walk_score)
    /\ ScoreInRange(f.transit_score)
    /\ ScoreInRange(f.bike_score)

Validates(f) ==
    /\ f.title
    /\ f.rent.some => f.rent.num >= 0
    /\ f.bedrooms.some => f.bedrooms.v >= 0
    /\ f.size_sqft.some => f.size_sqft.v >= 0
    /\ ScoreInRange(f.walk_score)
    /\ ScoreInRange(f.transit_score)
    /\ ScoreInRange(f.bike_score)

\* RentalsListing | None
NoData ==
    [title |-> TRUE, amount |-> AbsentAmount, ref |-> "absent",
     nbhd |-> Nbhd(Name("absent", ""), NoInt, NoInt, NoInt),
     bedrooms |-> NoText, size |-> NoText, activationDate |-> AbsentDate]

NoListing ==
    [some |-> FALSE,
     v |-> [listing_id |-> 0, published_at |-> NoneDT, title |-> TRUE,
            neighbourhood |-> NoStr, rent |-> NoRent, bedrooms |-> NoInt,
            size_sqft |-> NoInt, walk_score |-> NoInt, transit_score |-> NoInt,
            bike_score |-> NoInt]]

\* the outcome of a call that fetches: gets counts the session.get calls
Outcome(r, x, g) == [raised |-> r, value |-> x, gets |-> g]

\* RentalsListing(...): the listing, or ValidationError
Constructed(f) ==
    IF Validates(f) THEN Outcome(FALSE, Some(f), 1) ELSE Outcome(TRUE, NoListing, 1)

\* the body of the try block of _parse_listing_detail for the response the
\* site gives for the url
DetailBody(resp) ==
    IF resp.fetch # "ok" THEN Outcome(TRUE, NoListing, 1)
    ELSE IF resp.script \in {"absent", "empty"} THEN Outcome(FALSE, NoListing, 1)
    ELSE IF resp.script = "badjson" THEN Outcome(TRUE, NoListing, 1)
    ELSE IF ~resp.hasId THEN Outcome(FALSE, NoListing, 1)
    ELSE IF ~resp.hasEntry THEN Outcome(FALSE, NoListing, 1)
    ELSE Constructed(ListingFields(resp.id, resp.data))

\* except Exception: return None, for the outcome r of the try block
Caught_parsing_only(resp, r) ==
    IF r.raised /\ resp.fetch = "ok" THEN Outcome(FALSE, NoListing, r.gets) ELSE r

Caught(resp, r) == IF r.raised THEN Outcome(FALSE, NoListing, r.gets) ELSE r

\* _parse_listing_detail
parse_listing_detail(resp) == Caught(resp, DetailBody(resp))

\* a search item: its "item" key and the "url" in it may be missing; resp is
\* the response of the site for the url
Item(k, resp) == [kind |-> k, resp |-> resp]

\* parse_listing: the detail page of the item's url, None without url
parse_listing(item) ==
    IF item.kind = "url" THEN parse_listing_detail(item.resp)
    ELSE Outcome(FALSE, NoListing, 0)

-----------------------------------------------------------------------------
(* SpecDetail: calls of the detail-page extraction *)

Response(f, s, i, e, id, data) ==
    [fetch |-> f, script |-> s, hasId |-> i, hasEntry |-> e, id |-> id, data |-> data]

\* responses that differ in the structure of the page
StructureResponses ==
    { Response(f, s, i, e, 1, NoData) :
        f \in {"ok", "neterr", "httperr"},
        s \in {"absent", "empty", "badjson", "ok"},
        i \in BOOLEAN, e \in BOOLEAN }

Amounts ==
    { AbsentAmount, NullAmount } \cup
    { Amount("num", n) : n \in {-50, 50, 100, 101, 250000} }

ScoreValues == { NoInt, Some(-1), Some(0), Some(10), Some(11) }

Names == { Name("absent", ""), Name("null", ""), Name("str", "Midtown") }

Nbhds == { Nbhd(nm, w, t, b) : nm \in Names, w \in ScoreValues,
                                t \in ScoreValues, b \in ScoreValues }

\* the neighbourhoods of the detail pages
DetailNbhds ==
    { Nbhd(nm, w, t, b) : nm \in { Name("absent", ""), Name("str", "Midtown") },
                          w \in { NoInt, Some(-1), Some(10) },
                          t \in { NoInt, Some(10) },
                          b \in { NoInt, Some(11) } }

Refs == {"absent", "dangling", "ok"}

BedroomTexts == { NoText, Text(<<"-", "2">>), Text(<<"a", "b">>) }

SizeTexts == { NoText, Text(<<"1", ",", "2", "0", "0">>), Text(<<"-", "5">>) }

ActivationDates ==
    { AbsentDate,
      ActivationDate("malformed", Instant(0, 0, 0), 0),
      ActivationDate("z", Instant(MaxDay, 0, 0), 0),
      ActivationDate("z", Instant(MaxDay - 2, 43200, 0), 0),
      ActivationDate("offset", Instant(MaxDay - 1, SecondsPerDay - 1, 0), -5),
      ActivationDate("naive", Instant(MaxDay, 0, 0), 0) }

DetailActivationDates ==
    { AbsentDate,
      ActivationDate("z", Instant(MaxDay, 0, 0), 0),
      ActivationDate("offset", Instant(MaxDay - 1, SecondsPerDay - 1, 0), -5) }

\* the neighbourhood entry matters only when the reference resolves
RefNbhds ==
    { [ref |-> rf, nbhd |-> NoData.nbhd] : rf \in {"absent", "dangling"} } \cup
    { [ref |-> "ok", nbhd |-> nb] : nb \in DetailNbhds }

ListingDatas ==
    { [title |-> ti, amount |-> am, ref |-> rn.ref, nbhd |-> rn.nbhd,
       bedrooms |-> be, size |-> sz, activationDate |-> ad] :
        ti \in BOOLEAN, am \in Amounts, rn \in RefNbhds,
        be \in BedroomTexts, sz \in SizeTexts, ad \in DetailActivationDates }

DetailResponses ==
    StructureResponses \cup
    { Response("ok", "ok", TRUE, TRUE, 1, data) : data \in ListingDatas }

SearchItems ==
    { Item("empty", Response("ok", "ok", TRUE, TRUE, 1, NoData)),
      Item("nourl", Response("ok", "ok", TRUE, TRUE, 1, NoData)) } \cup
    { Item("url", resp) : resp \in StructureResponses }

InitDetail ==
    /\ scraper_mode = "last_x_days"
    /\ days = 7
    /\ specific_date = NoDate
    /\ now = Instant(MaxDay, 43200, 0)
    /\ op = "idle"
    /\ arg = <<>>
    /\ ret = Return(<<>>)
    /\ Untouched

\* scraper._extract_neighbourhood_info(listing_data, apollo_state)
CallExtractNeighbourhoodInfo ==
    \E rf \in Refs, nb \in Nbhds :
        /\ op = "idle"
        /\ op' = "extract_neighbourhood_info"
        /\ arg' = [ref |-> rf, nbhd |-> nb]
        /\ ret' = Return(extract_neighbourhood_info(rf, nb))
        /\ UNCHANGED <<session, objects, put_calls, flow, scraper_mode, days, specific_date, now>>

\* scraper._parse_listing_detail(url, city)
CallParseListingDetail ==
    \E resp \in DetailResponses :
        /\ op = "idle"
        /\ op' = "parse_listing_detail"
        /\ arg' = [resp |-> resp]
        /\ ret' = parse_listing_detail(resp)
        /\ UNCHANGED <<session, objects, put_calls, flow, scraper_mode, days, specific_date, now>>

\* scraper.parse_listing(listing_elem, city)
CallParseListing ==
    \E item \in SearchItems :
        /\ op = "idle"
        /\ op' = "parse_listing"
        /\ arg' = [item |-> item]
        /\ ret' = parse_listing(item)
        /\ UNCHANGED <<session, objects, put_calls, flow, scraper_mode, days, specific_date, now>>

\* scraper._parse_activation_date(value)
CallParseActivationDate ==
    \E value \in ActivationDates :
        /\ op = "idle"
        /\ op' = "parse_activation_date"
        /\ arg' = [value |-> value]
        /\ ret' = Return(parse_activation_date(value))
        /\ UNCHANGED <<session, objects, put_calls, flow, scraper_mode, days, specific_date, now>>

NextDetail ==
    \/ Resume
    \/ CallExtractNeighbourhoodInfo
    \/ CallParseListingDetail
    \/ CallParseListing
    \/ CallParseActivationDate

SpecDetail == InitDetail /\ [][NextDetail]_vars

-----------------------------------------------------------------------------
(* KijijiScraper._parse_page_impl and BaseScraper.parse_page *)

CapListings == 8

\* what the page level gives: fetched lists the items whose detail page was
\* requested, in the order of the requests
PageOutcome(r, x, g) == [raised |-> r, value |-> x, fetched |-> g]

\* the loop of _parse_page_impl over itemListElement from item i on; it ends
\* once 8 listings are there, and an exception ends it with the listings
\* found so far
RECURSIVE ImplFrom(_, _, _, _)

\* the rest of the loop once item i is parsed into the listings ls, with the
\* requests fs made so far; stop tells that parse_listing raised
ImplNext(items, i, ls, fs, stop) ==
    IF stop \/ Len(ls) >= CapListings
    THEN PageOutcome(FALSE, [listings |-> ls], fs)
    ELSE ImplFrom(items, i + 1, ls, fs)

\* one turn of the loop, r being what parse_listing gave for item i
ImplTurn(items, i, listings, fetched, r) ==
    ImplNext(items, i,
             IF ~r.raised /\ r.value.some THEN Append(listings, r.value.v) ELSE listings,
             IF r.gets > 0 THEN Append(fetched, i) ELSE fetched,
             r.raised)

ImplFrom(items, i, listings, fetched) ==
    IF i > Len(items) THEN PageOutcome(FALSE, [listings |-> listings], fetched)
    ELSE ImplTurn(items, i, listings, fetched, parse_listing(items[i]))

\* _parse_page_impl: no listing when the page has no JSON-LD block
parse_page_impl(page) ==
    IF page.jsonld # "ok" THEN PageOutcome(FALSE, [listings |-> <<>>], <<>>)
    ELSE ImplFrom(page.items, 1, <<>>, <<>>)

\* what parse_page gives when the filter gave f: an exception of the filter
\* leaves parse_page
Filtered(f, fetched) ==
    IF f.raised THEN PageOutcome(TRUE, [listings |-> <<>>], fetched)
    ELSE PageOutcome(FALSE, [listings |-> f.value], fetched)

\* the date filter over raw, what _parse_page_impl returned, with the clock
\* reading t
FilterRaw(mode, n, sd, raw, t) ==
    Filtered(apply_date_filter(mode, n, sd, raw.value.listings,
                               Readings(Len(raw.value.listings), t, t, 0)),
             raw.fetched)

\* parse_page: _parse_page_impl, then _apply_date_filter
parse_page(mode, n, sd, page, t) ==
    FilterRaw(mode, n, sd, parse_page_impl(page), t)

-----------------------------------------------------------------------------
(* SpecPage: calls of the page level *)

RecentDate == ActivationDate("z", Instant(MaxDay, 0, 0), 0)

RecentData == [NoData EXCEPT !.amount = Amount("num", 250000),
                             !.activationDate = RecentDate]

OkItem(data) == Item("url", Response("ok", "ok", TRUE, TRUE, 0, data))

NoUrlItem == Item("nourl", Response("ok", "ok", TRUE, TRUE, 0, NoData))
NetErrItem == Item("url", Response("neterr", "ok", TRUE, TRUE, 0, NoData))
RecentItem == OkItem(RecentData)
OldItem ==
    OkItem([RecentData EXCEPT
                !.activationDate = ActivationDate("z", Instant(MaxDay - 2, 43200, 0), 0)])
UndatedItem == OkItem([RecentData EXCEPT !.activationDate = AbsentDate])
NegRentItem == OkItem([RecentData EXCEPT !.amount = Amount("num", -50)])
NegSizeItem == OkItem([RecentData EXCEPT !.size = Text(<<"-", "5">>)])
BadScoreItem ==
    OkItem([RecentData EXCEPT
                !.ref = "ok",
                !.nbhd = Nbhd(Name("str", "Midtown"), Some(11), NoInt, NoInt)])

PageItemKinds ==
    { NoUrlItem, NetErrItem, RecentItem, OldItem, UndatedItem,
      NegRentItem, NegSizeItem, BadScoreItem }

\* the detail page of the i-th item of a page carries listing ID i
Numbered(items) ==
    [i \in 1..Len(items) |-> [items[i] EXCEPT !.resp.id = i]]

\* pages long enough to reach the cap, all items recent but at most one
LongItems ==
    { [i \in 1..(CapListings + e) |-> IF i = j THEN bad ELSE RecentItem] :
        e \in 1..MaxExtra, j \in 0..(CapListings + MaxExtra),
        bad \in {NoUrlItem, NegRentItem} }

Pages ==
    { [jsonld |-> "absent", items |-> <<>>] } \cup
    { [jsonld |-> "ok", items |-> Numbered(items)] :
        items \in SeqsUpTo(PageItemKinds, MaxItems) \cup LongItems }

InitPage ==
    /\ scraper_mode \in Modes
    /\ days \in 0..MaxDays
    /\ specific_date \in {NoDate, Some(MaxDay)}
    /\ now \in ClockValues
    /\ op = "idle"
    /\ arg = <<>>
    /\ ret = Return(<<>>)
    /\ Untouched

\* scraper._parse_page_impl(soup, city)
CallParsePageImpl ==
    \E page \in Pages :
        /\ op = "idle"
        /\ op' = "parse_page_impl"
        /\ arg' = [page |-> page, at |-> now]
        /\ ret' = parse_page_impl(page)
        /\ UNCHANGED <<session, objects, put_calls, flow, scraper_mode, days, specific_date, now>>

\* scraper.parse_page(soup, city); time passes while the detail pages are
\* fetched, the filter reads the clock afterwards
CallParsePage ==
    \E page \in Pages :
    \E t1 \in { t \in ClockValues : Leq(now, t) } :
        /\ op = "idle"
        /\ op' = "parse_page"
        /\ arg' = [page |-> page, at |-> t1]
        /\ ret' = parse_page(scraper_mode, days, specific_date, page, t1)
        /\ now' = t1
        /\ UNCHANGED <<session, objects, put_calls, flow, scraper_mode, days, specific_date>>

NextPage == Tick \/ Resume \/ CallParsePageImpl \/ CallParsePage

SpecPage == InitPage /\ [][NextPage]_vars

-----------------------------------------------------------------------------
(* KijijiScraper.get_page and tasks/scraping.py *)

MaxPages == 2    \* max_pages of a run is 0..MaxPages
MaxGets == 2     \* search-page GETs of the calls made outside a run
MaxResults == 2  \* longest list handed to aggregate_results
MaxRows == 2     \* most listings of one ScrapingResult handed to it

\* the keys of KijijiScraper.SUPPORTED_CITIES, which are the members of City
SUPPORTED_CITIES == {"toronto", "vancouver", "london"}

\* the cities a caller may name: the members of City and one that
\* SUPPORTED_CITIES has no entry for
CityValues == SUPPORTED_CITIES \cup {"montreal"}

NoSoup == [jsonld |-> "absent", items |-> <<>>]

\* session.get(url, params={"page": page}, timeout=10) on the session s and
\* raise_for_status(): the site answers the GET with the page `soup`, or fails
\* it (a network fault, or a status that becomes HTTPError)
Requested(s, answer, soup) ==
    IF answer = "ok"
    THEN [raised |-> FALSE, error |-> "", soup |-> soup, session |-> s]
    ELSE [raised |-> TRUE, error |-> "HTTPError", soup |-> NoSoup, session |-> s]

get_page_unchecked(s, city, page, answer, soup) ==
    Requested([s EXCEPT !.gets = Append(@, [city |-> city, page |-> page])],
              answer, soup)

\* get_page on the session s
get_page(s, city, page, answer, soup) ==
    IF city \notin SUPPORTED_CITIES
    THEN [raised |-> TRUE, error |-> "ValueError", soup |-> NoSoup, session |-> s]
    ELSE Requested([s EXCEPT !.gets = Append(@, [city |-> city, page |-> page])],
                   answer, soup)

\* whether the call scraper.parse_page(soup=, city=, download_delay=) binds to
\* the parameters of BaseScraper.parse_page, which KijijiScraper inherits:
\* Python raises TypeError for a keyword that is no parameter
ParsePageBinds == {"soup", "city", "download_delay"} \subseteq {"soup", "city"}

ScrapingResult(page, city, listings, error) ==
    [page_number |-> page, city |-> city, listings |-> listings,
     total_listings |-> Len(listings), error |-> error]

TaskOutcome(r, e, x, s) == [raised |-> r, error |-> e, value |-> x, session |-> s]

\* scraper.parse_page(...) returned or raised
Parsed(parsed, page, city, s) ==
    IF parsed.raised
    THEN TaskOutcome(TRUE, "TypeError", ScrapingResult(page, city, <<>>, NoStr), s)
    ELSE TaskOutcome(FALSE, "", ScrapingResult(page, city, parsed.value.listings, NoStr), s)

\* the try block of fetch_and_parse_page once get_page gave `got`
TryBlock(got, mode, n, sd, city, page, t) ==
    IF got.raised
    THEN TaskOutcome(TRUE, got.error, ScrapingResult(page, city, <<>>, NoStr), got.session)
    ELSE IF ~ParsePageBinds
    THEN TaskOutcome(TRUE, "TypeError", ScrapingResult(page, city, <<>>, NoStr), got.session)
    ELSE Parsed(parse_page(mode, n, sd, got.soup, t), page, city, got.session)

\* except Exception: the result carries the error and no listing
ErrorResult_raise(r, page, city) == r

ErrorResult(r, page, city) ==
    IF r.raised
    THEN TaskOutcome(FALSE, "", ScrapingResult(page, city, <<>>, Some(r.error)), r.session)
    ELSE r

\* the function under @task, called once per attempt
fetch_and_parse_page(s, mode, n, sd, city, page, answer, soup, t) ==
    ErrorResult(TryBlock(get_page(s, city, page, answer, soup), mode, n, sd, city, page, t),
                page, city)

\* retries=3 of @task: the runs after the first that Prefect gives a task whose
\* function raised
Retries == 3

RECURSIVE RunTask(_, _, _, _, _, _, _, _, _, _)

\* the k-th run gave r: Prefect runs the function again when it raised and
\* retries are left
Rerun(r, mode, n, sd, city, page, answers, soup, t, k) ==
    IF r.raised /\ k <= Retries
    THEN RunTask(r.session, mode, n, sd, city, page, answers, soup, t, k + 1)
    ELSE [raised |-> r.raised, value |-> r.value, session |-> r.session,
          attempts |-> k]

\* the task run from its k-th attempt on, the site answering the GET of
\* attempt i as answers[i]
RunTask(s, mode, n, sd, city, page, answers, soup, t, k) ==
    Rerun(fetch_and_parse_page(s, mode, n, sd, city, page, answers[k], soup, t),
          mode, n, sd, city, page, answers, soup, t, k)

\* all_listings.extend(result.listings), for every result
Extend_unless_error(all_listings, result) ==
    IF result.error.some THEN all_listings ELSE all_listings \o result.listings

Extend(all_listings, result) == all_listings \o result.listings

RECURSIVE AggregateFrom(_, _, _, _)

\* the loop of aggregate_results from result i on
AggregateFrom(results, i, all_listings, error_count) ==
    IF i > Len(results) THEN all_listings
    ELSE AggregateFrom(results, i + 1, Extend(all_listings, results[i]),
                       IF results[i].error.some THEN error_count + 1 ELSE error_count)

\* aggregate_results returns the list alone; error_count is only logged
aggregate_results(results) ==
    Return([listings |-> AggregateFrom(results, 1, <<>>, 0)])

-----------------------------------------------------------------------------
(* flows/scrape_to_bronze_flow.py *)

\* the fields of ScrapingResult
ScrapingResultFields == {"page_number", "city", "listings", "total_listings", "error"}

FlowResult(r, status, pages, successful, failed, total, stored) ==
    [raised |-> r, status |-> status, pages_scraped |-> pages,
     successful_pages |-> successful, failed_pages |-> failed,
     total_listings |-> total, stored |-> stored]

\* what the flow ends with, and whether it called scraper.close()
Ended(result, closed) == [result |-> result, closed |-> closed]

\* the flow raised: an exception left it
Aborted == Ended(FlowResult(TRUE, "none", 0, 0, 0, 0, FALSE), FALSE)

\* the flow after the page loop. result.success is read of the first result,
\* and ScrapingResult has no such field: AttributeError; without a result both
\* sums are 0. With a batch to save,
\* the arguments of save_listings_to_minio are evaluated first, and
\* settings.environment, a str, has no attribute `value`: AttributeError, before
\* the task is called.
finish(page_results, max_pages) ==
    IF page_results # <<>> /\ "success" \notin ScrapingResultFields THEN Aborted
    ELSE IF Len(aggregate_results(page_results).value.listings) = 0
    THEN Ended(FlowResult(FALSE, "completed_no_data", max_pages, 0, 0, 0, FALSE), TRUE)
    ELSE Aborted

\* ScrapingResults as a caller of aggregate_results may hold them
SampleResults ==
    { ScrapingResult(1, "toronto", ls, e) :
        ls \in SeqsUpTo({Listing(1, NoneDT), Listing(2, NoneDT)}, MaxRows),
        e \in {NoStr, Some("HTTPError")} }

\* a scraper, an empty bucket, and nothing called yet
InitFlow ==
    /\ scraper_mode = "last_x_days"
    /\ days = 7
    /\ specific_date = NoDate
    /\ now = Instant(MaxDay, 43200, 0)
    /\ op = "idle"
    /\ arg = <<>>
    /\ ret = Return(<<>>)
    /\ Untouched

\* scraper.get_page(city, page), outside a run of the flow
CallGetPage ==
    \E city \in CityValues, page \in 1..MaxPages, answer \in {"ok", "fail"} :
        LET r == get_page(session, city, page, answer, NoSoup)
        IN  /\ op = "idle"
            /\ flow.pc = "none"
            /\ Len(session.gets) < MaxGets
            /\ op' = "get_page"
            /\ arg' = [city |-> city, page |-> page, answer |-> answer,
                       before |-> session]
            /\ ret' = [raised |-> r.raised, value |-> r.soup]
            /\ session' = r.session
            /\ UNCHANGED <<scraper_mode, days, specific_date, now, objects,
                           put_calls, flow>>

\* aggregate_results(results), outside a run of the flow
CallAggregateResults ==
    \E results \in SeqsUpTo(SampleResults, MaxResults) :
        /\ op = "idle"
        /\ flow.pc = "none"
        /\ op' = "aggregate_results"
        /\ arg' = [results |-> results]
        /\ ret' = aggregate_results(results)
        /\ UNCHANGED <<scraper_mode, days, specific_date, now, session,
                       objects, put_calls, flow>>

\* scrape_to_bronze(...) up to the page loop: the parameters are validated,
\* the scraper is constructed and the city is looked up
FlowBegin ==
    \E city \in CityValues, mode \in Modes, sd \in {NoDate, Some(MaxDay)},
       max_pages \in 0..MaxPages :
        /\ op = "idle"
        /\ flow.pc = "none"
        /\ IF mode = "specific_date" /\ ~sd.some
           THEN /\ flow' = [flow EXCEPT !.pc = "done", !.city = city,
                                        !.max_pages = max_pages,
                                        !.result = FlowResult(FALSE, "error", 0, 0, 0, 0, FALSE)]
                /\ UNCHANGED <<scraper_mode, days, specific_date, session>>
           ELSE /\ scraper_mode' = mode
                /\ days' = 7
                /\ specific_date' = sd
                /\ session' = NewSession
                /\ flow' = IF city \notin SUPPORTED_CITIES
                           THEN [flow EXCEPT !.pc = "done", !.constructed = TRUE,
                                             !.city = city, !.max_pages = max_pages,
                                             !.result = FlowResult(FALSE, "error", 0, 0, 0, 0, FALSE)]
                           ELSE [flow EXCEPT !.pc = "pages", !.constructed = TRUE,
                                             !.city = city, !.max_pages = max_pages]
        /\ UNCHANGED <<now, op, arg, ret, objects, put_calls>>

\* range(1, max_pages + 1): the page number after `page`
NextPageNumber_skipping(page) == page + 2

NextPageNumber(page) == page + 1

\* a search page of three items: one without URL, one recent listing and one
\* that is two days old
ThreeItems == [jsonld |-> "ok", items |-> Numbered(<<NoUrlItem, RecentItem, OldItem>>)]

\* one turn of the page loop: the task fetch_and_parse_page for the next page,
\* with its retries; an exception of the task leaves the flow. The site fails
\* the first `failing` GETs of the page and answers the later ones.
FlowPage ==
    \E failing \in 0..(Retries + 1) :
    \E soup \in { NoSoup, [jsonld |-> "ok", items |-> Numbered(<<RecentItem>>)], ThreeItems } :
        LET answers == [k \in 1..(Retries + 1) |-> IF k <= failing THEN "fail" ELSE "ok"]
            run == RunTask(session, scraper_mode, days, specific_date, flow.city,
                           flow.page, answers, soup, now, 1)
        IN  /\ flow.pc = "pages"
            /\ flow.page <= flow.max_pages
            /\ session' = run.session
            /\ flow' = IF run.raised
                       THEN [flow EXCEPT !.pc = "done", !.result = Aborted.result,
                                 !.task_runs = Append(@, [page |-> flow.page, soup |-> soup,
                                                          answers |-> answers,
                                                          attempts |-> run.attempts])]
                       ELSE [flow EXCEPT !.page = NextPageNumber(@),
                                 !.page_results = Append(@, run.value),
                                 !.task_runs = Append(@, [page |-> flow.page, soup |-> soup,
                                                          answers |-> answers,
                                                          attempts |-> run.attempts])]
            /\ UNCHANGED <<scraper_mode, days, specific_date, now, op, arg, ret,
                           objects, put_calls>>

\* the flow after the page loop: aggregation, the counts, the save, the result
FlowFinish ==
    LET end == finish(flow.page_results, flow.max_pages)
    IN  /\ flow.pc = "pages"
        /\ flow.page > flow.max_pages
        /\ flow' = [flow EXCEPT !.pc = "done", !.result = end.result]
        /\ session' = [session EXCEPT !.closed = end.closed]
        /\ UNCHANGED <<scraper_mode, days, specific_date, now, op, arg, ret,
                       objects, put_calls>>

NextFlow ==
    \/ Resume
    \/ CallGetPage
    \/ CallAggregateResults
    \/ FlowBegin
    \/ FlowPage
    \/ FlowFinish

SpecFlow == InitFlow /\ [][NextFlow]_vars

-----------------------------------------------------------------------------
(* connectors/minio.py: MinIOStorage.save_listings *)

MaxSaves == 2    \* save_listings calls that reach the bucket

\* a str is the sequence of its characters
RECURSIVE WithoutFrom(_, _, _)

\* text[i..] with every occurrence of the character c left out
WithoutFrom(text, c, i) ==
    IF i > Len(text) THEN <<>>
    ELSE IF text[i] = c THEN WithoutFrom(text, c, i + 1)
    ELSE <<text[i]>> \o WithoutFrom(text, c, i + 1)

\* the paths with the datestamp left as the partition date
get_object_paths_dashed(source, city, partition_date) ==
    [parquet_path |->
        <<<<"listings">>, <<"source=", source>>, <<"city=", city>>,
          <<"dt=", partition_date>>,
          <<"listings_", partition_date, ".parquet">>>>,
     metadata_path |->
        <<<<"listings">>, <<"source=", source>>, <<"city=", city>>,
          <<"dt=", partition_date>>,
          <<"_metadata.json">>>>,
     datestamp |-> partition_date]

\* _get_object_paths: an object name is the sequence of the pieces its
\* f-string joins with "/"
get_object_paths(source, city, partition_date) ==
    [parquet_path |->
        <<<<"listings">>, <<"source=", source>>, <<"city=", city>>,
          <<"dt=", partition_date>>,
          <<"listings_", WithoutFrom(partition_date, "-", 1), ".parquet">>>>,
     metadata_path |->
        <<<<"listings">>, <<"source=", source>>, <<"city=", city>>,
          <<"dt=", partition_date>>,
          <<"_metadata.json">>>>,
     datestamp |-> WithoutFrom(partition_date, "-", 1)]

\* f"{self.bucket_name}/{path}"
InBucket(bucket_name, path) == <<<<bucket_name>>>> \o path

\* the bucket once an object is put under a name: it takes the place of the
\* object that was there
put_object_merging(objs, name, body) ==
    [k \in DOMAIN objs \cup {name} |->
        IF k # name THEN objs[k]
        ELSE IF name \in DOMAIN objs /\ "rows" \in DOMAIN body
        THEN [rows |-> objs[name].rows \o body.rows]
        ELSE body]

put_object(objs, name, body) ==
    [k \in DOMAIN objs \cup {name} |-> IF k = name THEN body ELSE objs[k]]

\* None where a dict or a path may be
NoDict == [some |-> FALSE, v |-> <<>>]

\* the keys of extra_metadata whose value is not None
Supplied(extra) == { k \in DOMAIN extra.v : extra.v[k].some }

\* metadata.update(...): the metadata dict with the caller's entries written
\* over it
Updated(metadata, extra) ==
    [k \in DOMAIN metadata \cup Supplied(extra) |->
        IF k \in Supplied(extra) THEN extra.v[k].v ELSE metadata[k]]

StorageResult(status, path, metadata_path, metadata, count, reason) ==
    [status |-> status, path |-> path, metadata_path |-> metadata_path,
     metadata |-> metadata, count |-> count, reason |-> reason]

SaveOutcome(r, x, objs, calls) ==
    [raised |-> r, value |-> x, objects |-> objs, put_calls |-> calls]

\* the two except clauses: the result has status FAILED
Failed(paths, reason, objs, calls) ==
    SaveOutcome(FALSE,
                StorageResult("FAILED", Some(paths.parquet_path),
                              Some(paths.metadata_path), NoDict, 0, Some(reason)),
                objs, calls)

\* the process ends within a put_object call of save_listings, before the
\* bucket took the object: nothing is returned
Crashed(objs, calls) ==
    SaveOutcome(TRUE, StorageResult("none", NoDict, NoDict, NoDict, 0, NoStr),
                objs, calls)

PutCall(name, body, outcome) == [name |-> name, body |-> body, outcome |-> outcome]

\* the second put_object, of the metadata, and the result
PutMetadata(objs, calls, bucket_name, paths, metadata, count, fault) ==
    IF fault = "meta:crash"
    THEN Crashed(objs, Append(calls, PutCall(paths.metadata_path, [metadata |-> metadata], "crashed")))
    ELSE IF fault \in {"meta:S3Error", "meta:Exception"}
    THEN Failed(paths, fault, objs,
                Append(calls, PutCall(paths.metadata_path, [metadata |-> metadata], "raised")))
    ELSE SaveOutcome(FALSE,
             StorageResult("SUCCESS",
                           Some(InBucket(bucket_name, paths.parquet_path)),
                           Some(InBucket(bucket_name, paths.metadata_path)),
                           Some(metadata), count, NoStr),
             put_object(objs, paths.metadata_path, [metadata |-> metadata]),
             Append(calls, PutCall(paths.metadata_path, [metadata |-> metadata], "ok")))

\* save_listings from the paths on: the metadata dict, then the try block with
\* the first put_object, of the Parquet file
TryPuts_skipping_data(objs, calls, bucket_name, paths, listings, source, city, partition_date, environment, extra, fault, t) ==
    PutMetadata(objs, calls, bucket_name, paths,
                [record_count |-> Len(listings)], Len(listings), fault)

TryPuts(objs, calls, bucket_name, paths, listings, source, city, partition_date, environment, extra, fault, t) ==
    IF fault = "data:crash"
    THEN Crashed(objs, Append(calls, PutCall(paths.parquet_path, [rows |-> listings], "crashed")))
    ELSE IF fault \in {"data:S3Error", "data:Exception"}
    THEN Failed(paths, fault, objs,
                Append(calls, PutCall(paths.parquet_path, [rows |-> listings], "raised")))
    ELSE PutMetadata(put_object(objs, paths.parquet_path, [rows |-> listings]),
                     Append(calls, PutCall(paths.parquet_path, [rows |-> listings], "ok")),
                     bucket_name, paths,
                     Updated([bucket |-> bucket_name,
                              path |-> InBucket(bucket_name, paths.parquet_path),
                              record_count |-> Len(listings),
                              source |-> source,
                              city |-> city,
                              partition_date |-> partition_date,
                              datestamp |-> paths.datestamp,
                              environment |-> environment,
                              saved_at |-> t],
                             extra),
                     Len(listings), fault)

\* `if not listings`
NoListings_never(listings) == FALSE

NoListings(listings) == listings = <<>>

\* MinIOStorage.save_listings on the bucket objs, the client having made the
\* put_object calls `calls` before; as `fault` tells, a put_object call may
\* raise S3Error or another exception, and the process may end within the
\* put_object call of the data or of the metadata
save_listings(objs, calls, bucket_name, listings, source, city, partition_date, environment, extra, fault, t) ==
    IF NoListings(listings)
    THEN SaveOutcome(FALSE,
                     StorageResult("SKIPPED", NoDict, NoDict, NoDict, 0,
                                   Some("Empty listings")),
                     objs, calls)
    ELSE TryPuts(objs, calls, bucket_name,
                 get_object_paths(source, city, partition_date),
                 listings, source, city, partition_date, environment, extra,
                 fault, t)

-----------------------------------------------------------------------------
(* SpecStore: calls of save_listings on one bucket *)

PartitionDates ==
    { <<"2", "0", "2", "6", "-", "0", "2", "-", "2", "5">>,
      <<"2", "0", "2", "6", "-", "0", "2", "-", "2", "6">> }

Batches ==
    { <<>>, <<Listing(1, NoneDT)>>, <<Listing(2, NoneDT), Listing(3, NoneDT)>> }

\* extra_metadata: None, the run parameters of a flow, and a dict with a key
\* that the metadata has already
ExtraMetadatas ==
    { NoDict,
      Some([max_pages |-> Some(3), specific_date |-> NoInt]),
      Some([record_count |-> Some(0)]) }

\* storage.save_listings(listings, source, city, partition_date, environment,
\* extra_metadata)
CallSaveListings ==
    \E listings \in Batches, partition_date \in PartitionDates,
       extra \in ExtraMetadatas :
    \E fault \in {"none", "data:S3Error", "data:crash", "meta:Exception", "meta:crash"} :
        LET r == save_listings(objects, put_calls, "raw", listings, "kijiji",
                               "toronto", partition_date, "dev", extra, fault, now)
        IN  /\ op = "idle"
            /\ Cardinality({ i \in 1..Len(put_calls) : "rows" \in DOMAIN put_calls[i].body })
                  < MaxSaves
            /\ op' = "save_listings"
            /\ arg' = [listings |-> listings, source |-> "kijiji",
                       city |-> "toronto", partition_date |-> partition_date,
                       extra |-> extra, fault |-> fault,
                       objects |-> objects, put_calls |-> put_calls]
            /\ ret' = [raised |-> r.raised, value |-> r.value]
            /\ objects' = r.objects
            /\ put_calls' = r.put_calls
            /\ UNCHANGED <<scraper_mode, days, specific_date, now, session, flow>>

NextStore == Resume \/ CallSaveListings

SpecStore == InitFlow /\ [][NextStore]_vars

-----------------------------------------------------------------------------
(* Properties of Spec *)

\* the call in flight is _passes_date_filter on a listing whose published_at
\* is a timezone-aware datetime
PassesCallOnAware ==
    op = "passes_date_filter" /\ arg.listing.published_at.kind = "aware"

\* t + timedelta(seconds=1) for an instant before the last second of its day
PlusOneSecond(t) == [t EXCEPT !.sec = @ + 1]

C3_NoTargetPassesAll ==
    (op = "passes_date_filter" /\ scraper_mode = "specific_date" /\ ~specific_date.some)
        => ret = Return(TRUE)

C3_Witness ==
    /\ op = "passes_date_filter"
    /\ scraper_mode = "specific_date"
    /\ ~specific_date.some
    /\ arg.listing.published_at = Aware(Instant(0, 0, 0))
    /\ ret = Return(TRUE)

\* the listing at position i of the input is in the output
InOutput(i) == \E j \in 1..Len(ret.value) : ret.value[j] = arg.listings[i]

-----------------------------------------------------------------------------
(* Properties of SpecDetail *)

\* the response lacks something _parse_listing_detail needs: the fetch
\* failed, or the script, the listing ID or the state entry is missing
StructuralFailure(resp) ==
    resp.fetch # "ok" \/ resp.script # "ok" \/ ~resp.hasId \/ ~resp.hasEntry

\* C7: parse_listing and _parse_listing_detail never raise; they return None
\* on a failed fetch and on a page without script, listing ID or state
\* entry; an item without URL gives None without any request.
C7_ParseListingNeverRaises ==
    /\ op \in {"parse_listing", "parse_listing_detail"} => ~ret.raised
    /\ (op = "parse_listing_detail" /\ StructuralFailure(arg.resp)) => ~ret.value.some
    /\ (op = "parse_listing" /\ arg.item.kind = "url" /\ StructuralFailure(arg.item.resp))
           => ~ret.value.some
    /\ (op = "parse_listing" /\ arg.item.kind # "url")
           => (~ret.value.some /\ ret.gets = 0)

C7_Witness ==
    /\ op = "parse_listing_detail"
    /\ arg.resp.fetch = "neterr"
    /\ ret = Outcome(FALSE, NoListing, 1)

\* C9: a listing built from a numeric raw price n stores the rent n/100 when
\* n > 100 and n itself when n <= 100 (100 included); 250000 gives 2500 and
\* 50 gives 50.
C9_PriceNormalization ==
    (op = "parse_listing_detail" /\ ret.value.some /\ arg.resp.data.amount.kind = "num") =>
        LET n == arg.resp.data.amount.n
            rent == ret.value.v.rent
        IN  /\ rent.some
            /\ rent.den > 0
            /\ n > 100 => rent.num * 100 = n * rent.den
            /\ n <= 100 => rent.num = n * rent.den
            /\ n = 250000 => rent.num = 2500 * rent.den
            /\ n = 50 => rent.num = 50 * rent.den

C9_Witness ==
    /\ op = "parse_listing_detail"
    /\ ret.value.some
    /\ arg.resp.data.amount = Amount("num", 100)
    /\ ret.value.v.rent = Rent(100, 1)

\* C10: _extract_neighbourhood_info returns neighbourhood None and the three
\* scores None when the reference is missing or is no key of the state, and
\* the referenced name with the three scores when it resolves.
C10_NeighbourhoodAbsentWhenUnresolved ==
    op = "extract_neighbourhood_info" =>
        /\ arg.ref # "ok" =>
               (ret.value.neighbourhood = NoStr /\ ret.value.scores = NoScores)
        /\ (arg.ref = "ok" /\ arg.nbhd.name.kind = "str") =>
               /\ ret.value.neighbourhood = Some(arg.nbhd.name.v)
               /\ ret.value.scores = [walk_score |-> arg.nbhd.walk,
                                      transit_score |-> arg.nbhd.transit,
                                      bike_score |-> arg.nbhd.cycle]

-----------------------------------------------------------------------------
(* Properties of SpecPage *)

\* the listings a page call returned
Returned == ret.value.listings

\* the item's detail page parses but carries an out-of-range field: a
\* negative rent or size, or a score outside [0,10]
OutOfRange(item) ==
    /\ item.kind = "url"
    /\ ~StructuralFailure(item.resp)
    /\ \/ item.resp.data.amount.kind = "num" /\ item.resp.data.amount.n < 0
       \/ item.resp.data.size = Text(<<"-", "5">>)
       \/ /\ item.resp.data.ref = "ok"
          /\ \E x \in { item.resp.data.nbhd.walk, item.resp.data.nbhd.transit,
                        item.resp.data.nbhd.cycle } : x.some /\ x.v \notin 0..10

\* C8: an item whose listing has an out-of-range field gives no listing, the
\* item after it is still requested, and every listing of the batch has a
\* rent >= 0, a size and bedrooms >= 0 and scores within [0,10], or None.
C8_ValidationConfinedToListing ==
    op \in {"parse_page_impl", "parse_page"} =>
        LET items == arg.page.items
        IN  /\ \A i \in 1..Len(items) :
                   OutOfRange(items[i]) =>
                       /\ \A k \in 1..Len(Returned) : Returned[k].listing_id # i
                       /\ (/\ \E g \in 1..Len(ret.fetched) : ret.fetched[g] = i
                           /\ i < Len(items)
                           /\ items[i + 1].kind = "url")
                              => \E g \in 1..Len(ret.fetched) : ret.fetched[g] = i + 1
            /\ \A k \in 1..Len(Returned) :
                   LET l == Returned[k]
                   IN  /\ l.rent.some => (l.rent.num >= 0 /\ l.rent.den > 0)
                       /\ l.size_sqft.some => l.size_sqft.v >= 0
                       /\ l.bedrooms.some => l.bedrooms.v >= 0
                       /\ \A x \in {l.walk_score, l.transit_score, l.bike_score} :
                              x.some => x.v \in 0..10

C8_Witness ==
    /\ op = "parse_page_impl"
    /\ Len(arg.page.items) = 2
    /\ OutOfRange(arg.page.items[1])
    /\ arg.page.items[1].resp.data.amount.n < 0
    /\ ret.fetched = <<1, 2>>
    /\ Len(Returned) = 1
    /\ Returned[1].listing_id = 2

\* the listings _parse_page_impl gives for the page of the call
RawListings == parse_page_impl(arg.page).value.listings

\* C4: in mode last_x_days parse_page does not fail on a listing without
\* published_at: that listing is left out and the listings of the page that
\* pass the filter are returned.
C4_UndatedListingExcluded ==
    (op = "parse_page" /\ scraper_mode = "last_x_days") =>
        /\ ~ret.raised
        /\ \A k \in 1..Len(RawListings) :
               LET l == RawListings[k]
                   kept == \E j \in 1..Len(Returned) : Returned[j] = l
               IN  /\ l.published_at.kind = "none" => ~kept
                   /\ (/\ l.published_at.kind = "aware"
                       /\ AtOrAfterCutoff(l.published_at.t, MinusDays(arg.at, days)))
                          => kept

\* the items of the page for which parse_listing gave None
FailedItems ==
    { i \in 1..Len(arg.page.items) : ~parse_listing(arg.page.items[i]).value.some }

\* C6: parse_page returns the pair of the date-filtered listings of
\* _parse_page_impl and the failed count of _parse_page_impl, which the
\* filter leaves unchanged.
C6_ParsePageReturnsPair ==
    (op = "parse_page" /\ ~ret.raised) =>
        /\ "failed" \in DOMAIN ret.value
        /\ ret.value.failed = Cardinality(FailedItems)
        /\ ret.value.listings =
               apply_date_filter(scraper_mode, days, specific_date, RawListings,
                                 Readings(Len(RawListings), arg.at, arg.at, 0)).value

-----------------------------------------------------------------------------
(* Properties of SpecFlow *)

\* C11: a city that SUPPORTED_CITIES has no entry for fails before any network
\* call: get_page raises and its session has issued no GET, and a run of
\* scrape_to_bronze for such a city ends with status error, no page task run,
\* no GET of its scraper and no object put.
C11_UnsupportedCityFailsBeforeNetwork ==
    /\ (op = "get_page" /\ arg.city \notin SUPPORTED_CITIES)
           => (ret.raised /\ session = arg.before)
    /\ (flow.pc = "done" /\ flow.constructed /\ flow.city \notin SUPPORTED_CITIES)
           => /\ ~flow.result.raised
              /\ flow.result.status = "error"
              /\ flow.result.pages_scraped = 0
              /\ flow.task_runs = <<>>
              /\ session.gets = <<>>
              /\ put_calls = <<>>
              /\ objects = NoObjects

C11_Witness ==
    /\ flow.pc = "done"
    /\ flow.constructed
    /\ flow.city \notin SUPPORTED_CITIES
    /\ flow.result.status = "error"

\* the site failed the GET of the first attempt and answers one of the
\* attempts that a budget of 3 leaves
FailsThenAnswers(run) ==
    run.answers[1] = "fail" /\ \E k \in 2..3 : run.answers[k] = "ok"

\* C12: the page task is retried on failure with at most 3 attempts per page:
\* no page is fetched more than 3 times, a failed first attempt is followed by
\* another one, and a page whose fetch fails and then succeeds within the
\* budget is reported without error.
C12_RetriedWithinThreeAttempts ==
    \A i \in 1..Len(flow.task_runs) :
        /\ flow.task_runs[i].attempts <= 3
        /\ flow.task_runs[i].answers[1] = "fail" => flow.task_runs[i].attempts >= 2
        /\ (FailsThenAnswers(flow.task_runs[i]) /\ i <= Len(flow.page_results))
               => ~flow.page_results[i].error.some

\* the site failed every GET the task made for the page of this run
FetchFailed(run) == \A k \in 1..run.attempts : run.answers[k] = "fail"

\* the listings of the batch that the pages before page i contributed
Before(i) ==
    Len(aggregate_results(SubSeq(flow.page_results, 1, i - 1)).value.listings)

\* C13: a page whose fetch fails on every attempt does not end the page loop:
\* its result carries the error and no listing, the batch holds nothing of it,
\* and the loop goes on until every page number up to max_pages has a result.
C13_FailedPageDoesNotAbort ==
    /\ \A i \in 1..Len(flow.task_runs) :
           FetchFailed(flow.task_runs[i])
              => /\ i <= Len(flow.page_results)
                 /\ flow.page_results[i].page_number = flow.task_runs[i].page
                 /\ flow.page_results[i].error.some
                 /\ flow.page_results[i].listings = <<>>
                 /\ Before(i + 1) = Before(i)
    /\ (flow.pc = "done" /\ flow.task_runs # <<>>)
           => /\ Len(flow.page_results) = flow.max_pages
              /\ \A p \in 1..flow.max_pages : flow.page_results[p].page_number = p

\* a run of the flow is over whose first page failed to fetch and whose later
\* page was fetched nevertheless
C13_Witness ==
    /\ flow.pc = "done"
    /\ Len(flow.task_runs) = 2
    /\ FetchFailed(flow.task_runs[1])
    /\ Len(session.gets) = 2
    /\ session.gets[2].page = 2

RECURSIVE CountUpTo(_, _)

\* the number of listings of the first i results
CountUpTo(results, i) ==
    IF i = 0 THEN 0 ELSE CountUpTo(results, i - 1) + Len(results[i].listings)

\* C14: aggregate_results never raises and returns the listings of the
\* results concatenated in the order of the results: as many as the results
\* hold together, the j-th listing of result i standing right after all the
\* listings of the results before i.
C14_AggregateConcatenatesInOrder ==
    op = "aggregate_results"
       => /\ ~ret.raised
          /\ Len(ret.value.listings) = CountUpTo(arg.results, Len(arg.results))
          /\ \A i \in 1..Len(arg.results) :
                 \A j \in 1..Len(arg.results[i].listings) :
                     ret.value.listings[CountUpTo(arg.results, i - 1) + j]
                        = arg.results[i].listings[j]

\* two results were aggregated, the first of a page that also carries an
\* error, the second without listings
C14_Witness ==
    /\ op = "aggregate_results"
    /\ Len(arg.results) = 2
    /\ arg.results[1].error.some
    /\ Len(arg.results[1].listings) = 2
    /\ arg.results[1].listings[1] # arg.results[1].listings[2]
    /\ arg.results[2].listings = <<>>
    /\ Len(ret.value.listings) = 2

RECURSIVE FailedUpTo(_, _)

\* the listings that failed to parse on the pages of the first i results
FailedUpTo(results, i) ==
    IF i = 0 THEN 0 ELSE FailedUpTo(results, i - 1) + results[i].failed

\* C15: every ScrapingResult carries the count of the listings that failed to
\* parse on its page, and aggregate_results returns with the listings the sum
\* of these counts.
C15_AggregateSumsFailedCounts ==
    op = "aggregate_results"
       => /\ \A i \in 1..Len(arg.results) : "failed" \in DOMAIN arg.results[i]
          /\ "failed" \in DOMAIN ret.value
          /\ ret.value.failed = FailedUpTo(arg.results, Len(arg.results))

-----------------------------------------------------------------------------
(* Properties of SpecStore *)

NotDash(c) == c # "-"

\* the documented names of the two objects of the partition a save names
PartitionDir ==
    <<<<"listings">>, <<"source=", arg.source>>, <<"city=", arg.city>>,
      <<"dt=", arg.partition_date>>>>

DataName ==
    Append(PartitionDir,
           <<"listings_", SelectSeq(arg.partition_date, NotDash), ".parquet">>)

MetadataName == Append(PartitionDir, <<"_metadata.json">>)

\* the put_object calls that the save in flight made
NewCalls == SubSeq(put_calls, Len(arg.put_calls) + 1, Len(put_calls))

C17_TwoPutsDataThenMetadata ==
    (op = "save_listings" /\ arg.listings # <<>> /\ arg.fault = "none")
       => /\ Len(NewCalls) = 2
          /\ NewCalls[1].name = DataName
          /\ NewCalls[1].body = [rows |-> arg.listings]
          /\ NewCalls[2].name = MetadataName
          /\ "metadata" \in DOMAIN NewCalls[2].body
          /\ ~ret.raised
          /\ ret.value.status = "SUCCESS"
          /\ ret.value.count = Len(arg.listings)

C17_Witness ==
    /\ op = "save_listings"
    /\ Len(arg.listings) = 2
    /\ arg.fault = "none"
    /\ ret.value.status = "SUCCESS"
    /\ Len(NewCalls) = 2

\* C18: after a successful save of k > 0 listings the record_count of the
\* uploaded metadata object is k, whatever extra_metadata the caller gave.
C18_RecordCountIsBatchSize ==
    (op = "save_listings" /\ ret.value.status = "SUCCESS")
       => objects[MetadataName].metadata.record_count = Len(arg.listings)

\* C19: a put_object call that fails during the save reaches the caller of the
\* storage writer as a raised error (and so ends the flow).
C19_WriteFailureRaised ==
    (op = "save_listings" /\ arg.listings # <<>> /\ arg.fault # "none")
       => ret.raised

\* the names under which the bucket holds objects of the partition
PartitionNames(objs) ==
    { k \in DOMAIN objs : SubSeq(k, 1, Len(PartitionDir)) = PartitionDir }

\* C20: every save to one (source, city, partition_date) puts under the same
\* two object names, and after a successful save the partition holds what
\* that save wrote and nothing else: the rows of its batch and its metadata,
\* whose record_count is that of the batch unless the caller set it.
C20_LastWriterWins ==
    (op = "save_listings" /\ ret.value.status = "SUCCESS")
       => /\ PartitionNames(objects) = {DataName, MetadataName}
          /\ \A i \in 1..Len(put_calls) :
                 SubSeq(put_calls[i].name, 1, Len(PartitionDir)) = PartitionDir
                    => put_calls[i].name \in {DataName, MetadataName}
          /\ objects[DataName] = [rows |-> arg.listings]
          /\ objects[MetadataName] = [metadata |-> ret.value.metadata.v]
          /\ "record_count" \notin Supplied(arg.extra)
                => objects[MetadataName].metadata.record_count = Len(arg.listings)

\* a successful save into a partition that held the two objects of an
\* earlier save of another batch
C20_Witness ==
    /\ op = "save_listings"
    /\ ret.value.status = "SUCCESS"
    /\ DataName \in DOMAIN arg.objects
    /\ MetadataName \in DOMAIN arg.objects
    /\ arg.objects[DataName].rows # arg.listings
    /\ Len(arg.objects[DataName].rows) > Len(arg.listings)

-----------------------------------------------------------------------------
(* Properties of the flow as a whole (SpecFlow) *)

\* the run got past the page loop: every page number has its task result
PastPageLoop ==
    /\ flow.pc = "done"
    /\ flow.constructed
    /\ flow.city \in SUPPORTED_CITIES
    /\ Len(flow.page_results) = flow.max_pages

\* the batch of the run: what aggregate_results makes of its page results
Batch == aggregate_results(flow.page_results).value.listings

\* C21: a run of scrape_to_bronze ends with a returned result whose status is
\* success, completed_no_data or error; a run whose batch is empty returns
\* completed_no_data and nothing is put, and a run returns success only with
\* a batch that is not empty, total_listings being its length.
C21_FlowStatusAndNoData ==
    flow.pc = "done"
       => /\ ~flow.result.raised
          /\ flow.result.status \in {"success", "completed_no_data", "error"}
          /\ (PastPageLoop /\ Batch = <<>>)
                => (flow.result.status = "completed_no_data" /\ put_calls = <<>>)
          /\ flow.result.status = "success"
                => (Batch # <<>> /\ flow.result.total_listings = Len(Batch))

\* a one-page run for the day of RecentItem is over, the site having answered
\* the GET of page 1 with the search page of three items: the item without
\* URL does not parse, and the filter keeps RecentItem of the other two
OnePageRunOfThree ==
    /\ flow.pc = "done"
    /\ flow.max_pages = 1
    /\ scraper_mode = "specific_date"
    /\ specific_date = Some(MaxDay)
    /\ Len(flow.task_runs) = 1
    /\ flow.task_runs[1].soup = ThreeItems
    /\ flow.task_runs[1].answers[1] = "ok"

\* C22: such a run returns total_listings = 1 and a failed-listing count of
\* 1, and puts exactly one data object, of one row, and one metadata object,
\* with record_count = 1.
C22_EndToEndOnePage ==
    OnePageRunOfThree
       => /\ ~flow.result.raised
          /\ flow.result.total_listings = 1
          /\ "failed_listings" \in DOMAIN flow.result
          /\ flow.result.failed_listings = 1
          /\ Len(put_calls) = 2
          /\ Len(put_calls[1].body.rows) = 1
          /\ put_calls[2].body.metadata.record_count = 1
          /\ Cardinality(DOMAIN objects) = 2

\* C23: once the scraper is constructed, every way out of scrape_to_bronze,
\* returning or raising, has called close() on it before.
C23_SessionClosedOnEveryExit ==
    (flow.pc = "done" /\ flow.constructed) => session.closed

\* what scraper.parse_page gives for the page the site answered run i with
ParsePageOf(i) ==
    parse_page(scraper_mode, days, specific_date, flow.task_runs[i].soup, now)

\* C24: a page task whose GET was answered and whose page parses returns a
\* ScrapingResult for its page number with no error, with exactly the
\* listings that parse_page returns for the page, and with their number as
\* total_listings.
C24_FetchAndParsePageResult ==
    \A i \in 1..Len(flow.page_results) :
        (flow.task_runs[i].answers[1] = "ok" /\ ~ParsePageOf(i).raised)
           => /\ flow.page_results[i].page_number = flow.task_runs[i].page
              /\ ~flow.page_results[i].error.some
              /\ flow.page_results[i].listings = ParsePageOf(i).value.listings
              /\ flow.page_results[i].total_listings
                    = Len(ParsePageOf(i).value.listings)

-----------------------------------------------------------------------------
(* Further properties of SpecPage *)

\* C26: _parse_page_impl does not raise and returns the listings together
\* with a failed count: for a page whose structured data lists n items, the
\* count is the number of items for which parse_listing gave None and
\* len(listings) + failed = n; for a page without structured-data block it
\* returns no listing and the count 0.
C26_ParsePageImplAccountsForEveryItem ==
    op = "parse_page_impl"
       => /\ ~ret.raised
          /\ "failed" \in DOMAIN ret.value
          /\ arg.page.jsonld = "ok"
                => /\ ret.value.failed = Cardinality(FailedItems)
                   /\ Len(ret.value.listings) + ret.value.failed = Len(arg.page.items)
          /\ arg.page.jsonld # "ok"
                => (ret.value.listings = <<>> /\ ret.value.failed = 0)

-----------------------------------------------------------------------------
(* Properties of the partitions of the bucket (SpecStore) *)

\* the directory of an object name
Dir(name) == SubSeq(name, 1, Len(name) - 1)

\* the names under which the bucket holds the Parquet file of a directory
DataIn(objs, dir) ==
    { k \in DOMAIN objs : Dir(k) = dir /\ "rows" \in DOMAIN objs[k] }

\* C27: the two put_object calls of a save are two steps: a save that ends
\* between them leaves the data object without metadata. Whatever happens to
\* a save into a partition that held no object, the partition holds
\* afterwards no object, the data object alone, or both objects; and in no
\* state does a partition hold a metadata object without a data object.
C27_NoMetadataWithoutData ==
    /\ \A k \in DOMAIN objects :
           "metadata" \in DOMAIN objects[k] => DataIn(objects, Dir(k)) # {}
    /\ (op = "save_listings" /\ PartitionNames(arg.objects) = {})
           => PartitionNames(objects) \in {{}, {DataName}, {DataName, MetadataName}}

\* a save into an empty partition ended between its two put_object calls:
\* the partition holds the data object and no metadata
C27_Witness ==
    /\ op = "save_listings"
    /\ arg.fault = "meta:crash"
    /\ PartitionNames(arg.objects) = {}
    /\ PartitionNames(objects) = {DataName}
    /\ NewCalls[1].outcome = "ok"
    /\ NewCalls[2].outcome = "crashed"

\* C28: whenever a partition holds both the data object and the metadata
\* object, the record_count of the metadata is the number of rows of the data
\* object.
C28_RecordCountMatchesRows ==
    \A k \in DOMAIN objects :
        "metadata" \in DOMAIN objects[k]
           => \A d \in DataIn(objects, Dir(k)) :
                  objects[k].metadata.record_count = Len(objects[d].rows)

-----------------------------------------------------------------------------
(* Further properties of SpecDetail *)

\* C29: _parse_activation_date does not raise; it gives the timezone-aware
\* instant of an ISO-8601 string with Z or with an offset, None for an absent
\* or malformed value, and never a timestamp without timezone.
C29_ActivationDateAwareOrNone ==
    op = "parse_activation_date"
       => /\ ~ret.raised
          /\ arg.value.fmt \in {"z", "offset"}
                => ret.value = Aware(ToUTC(arg.value.local, arg.value.off))
          /\ arg.value.fmt \in {"absent", "malformed"} => ret.value = NoneDT
          /\ ret.value.kind # "naive"

-----------------------------------------------------------------------------
(* The page counts of the flow's result (SpecFlow) *)

\* the page results of the run that carry an error
WithError == { i \in 1..Len(flow.page_results) : flow.page_results[i].error.some }

\* C30: a run that got through the page loop returns a result in which
\* failed_pages is the number of page results that carry an error,
\* successful_pages the number of those that carry none, and
\* successful_pages + failed_pages = pages_scraped = max_pages.
C30_PageCountsAddUp ==
    (PastPageLoop /\ flow.max_pages > 0)
       => /\ ~flow.result.raised
          /\ flow.result.failed_pages = Cardinality(WithError)
          /\ flow.result.successful_pages
                = Len(flow.page_results) - Cardinality(WithError)
          /\ flow.result.successful_pages + flow.result.failed_pages
                = flow.result.pages_scraped
          /\ flow.result.pages_scraped = flow.max_pages

====
